---- MODULE Spec2Model ----
(***************************************************************************)
(* The VinylDNS JavaScript client (src/src/vinyldns.js): one VinylDNS      *)
(* instance, the facade calls made on it, the request library holding the  *)
(* dispatched requests, and the promise each call returned.                *)
(***************************************************************************)
EXTENDS Integers, Sequences, FiniteSets, TLC

VARIABLES
  client,      \* the VinylDNS instance: [constructed, config, urls]
  calls,       \* one record per facade call, in the order the calls were made
  sent,        \* the requests handed to the request library, in order, each
               \* with the call whose callback it holds and the outcome delivered
  uncaught,    \* exceptions that left a completion callback uncaught
  allocated    \* number of request descriptor objects allocated so far

vars == <<client, calls, sent, uncaught, allocated>>

---------------------------------------------------------------------------
(* JavaScript values.  Every value is a record of the same five fields so  *)
(* that any two values can be compared: t is the type tag, b/n/s hold a    *)
(* boolean, number or string, e holds the entries [k, v] of an object (in  *)
(* property order) or of an array (k = "").                                *)

JsVal(t, b, n, s, e) == [t |-> t, b |-> b, n |-> n, s |-> s, e |-> e]
Undefined == JsVal("undefined", FALSE, 0, "", <<>>)
Null      == JsVal("null", FALSE, 0, "", <<>>)
Bool(b)   == JsVal("boolean", b, 0, "", <<>>)
Num(n)    == JsVal("number", FALSE, n, "", <<>>)
Str(s)    == JsVal("string", FALSE, 0, s, <<>>)
Arr(items) == JsVal("array", FALSE, 0, "", [i \in 1..Len(items) |-> [k |-> "", v |-> items[i]]])
Obj(entries) == JsVal("object", FALSE, 0, "", entries)
P(k, v)   == [k |-> k, v |-> v]
\* an Error object: t is the error class, s its message
Error(class, message) == JsVal(class, FALSE, 0, message, <<>>)

\* ToBoolean, as applied by `opts.body ? ... : ''` and `if (err)`
Truthy(v) ==
  CASE v.t = "undefined" -> FALSE
    [] v.t = "null"      -> FALSE
    [] v.t = "boolean"   -> v.b
    [] v.t = "number"    -> v.n # 0
    [] v.t = "string"    -> v.s # ""
    [] OTHER             -> TRUE

\* property read obj.k: the value of the last entry named k, undefined if none
Get(obj, k) ==
  LET hits == {i \in 1..Len(obj.e) : obj.e[i].k = k}
  IN  IF obj.t # "object" \/ hits = {} THEN Undefined
      ELSE obj.e[CHOOSE i \in hits : \A j \in hits : j <= i].v

\* String(v) for the values the client concatenates into texts
ToStr(v) ==
  CASE v.t = "undefined" -> "undefined"
    [] v.t = "null"      -> "null"
    [] v.t = "number"    -> ToString(v.n)
    [] v.t = "boolean"   -> IF v.b THEN "true" ELSE "false"
    [] v.t = "object"    -> "[object Object]"
    [] OTHER             -> v.s

---------------------------------------------------------------------------
(* JSON.stringify, for values built of null, booleans, integers, strings,  *)
(* arrays, objects and undefined.                                          *)

Char(s, i) == SubSeq(s, i, i)

RECURSIVE Escape(_)
Escape(s) ==
  IF s = "" THEN ""
  ELSE LET c == Head(s)
       IN  (IF c = "\"" THEN "\\\"" ELSE IF c = "\\" THEN "\\\\" ELSE c) \o Escape(Tail(s))

Quote(s) == "\"" \o Escape(s) \o "\""

RECURSIVE Serialize(_), SerializeItems(_, _), SerializeMembers(_, _, _)
\* the text of one value; undefined has none and is handled by the callers
Serialize(v) ==
  CASE v.t = "null"    -> "null"
    [] v.t = "boolean" -> IF v.b THEN "true" ELSE "false"
    [] v.t = "number"  -> ToString(v.n)
    [] v.t = "string"  -> Quote(v.s)
    [] v.t = "array"   -> "[" \o SerializeItems(v.e, 1) \o "]"
    [] v.t = "object"  -> "{" \o SerializeMembers(v.e, 1, TRUE) \o "}"
    [] OTHER           -> "{}"

\* array elements from index i on: an undefined element is written as null
SerializeItems(e, i) ==
  IF i > Len(e) THEN ""
  ELSE (IF i > 1 THEN "," ELSE "")
       \o (IF e[i].v.t = "undefined" THEN "null" ELSE Serialize(e[i].v))
       \o SerializeItems(e, i + 1)

\* object members from index i on: a member whose value is undefined is left out
SerializeMembers(e, i, first) ==
  IF i > Len(e) THEN ""
  ELSE IF e[i].v.t = "undefined" THEN SerializeMembers(e, i + 1, first)
  ELSE (IF first THEN "" ELSE ",")
       \o Quote(e[i].k) \o ":" \o Serialize(e[i].v)
       \o SerializeMembers(e, i + 1, FALSE)

\* JSON.stringify(v): a JavaScript string, or undefined when v is undefined
JSONstringify(v) == IF v.t = "undefined" THEN Undefined ELSE Str(Serialize(v))

---------------------------------------------------------------------------
(* JSON.parse, by recursive descent over the text.  A parser result is     *)
(* [ok, v, i]: whether a value was read, the value, and the position after *)
(* it.  Number literals are integers and string escapes are \" \\ \/ \n    *)
(* \t \r: the texts of this model hold no others.                          *)

Whitespace == {" ", "\n", "\t", "\r"}
Digits == {"0", "1", "2", "3", "4", "5", "6", "7", "8", "9"}
DigitVal(c) ==
  CASE c = "0" -> 0 [] c = "1" -> 1 [] c = "2" -> 2 [] c = "3" -> 3 [] c = "4" -> 4
    [] c = "5" -> 5 [] c = "6" -> 6 [] c = "7" -> 7 [] c = "8" -> 8 [] c = "9" -> 9

Fail == [ok |-> FALSE, v |-> Undefined, i |-> 0]
Ok(v, i) == [ok |-> TRUE, v |-> v, i |-> i]

RECURSIVE SkipWs(_, _)
SkipWs(s, i) == IF i <= Len(s) /\ Char(s, i) \in Whitespace THEN SkipWs(s, i + 1) ELSE i

\* the characters of a string literal, from position i (after the opening quote)
RECURSIVE ParseChars(_, _, _)
ParseChars(s, i, acc) ==
  IF i > Len(s) THEN Fail
  ELSE LET c == Char(s, i)
       IN  IF c = "\"" THEN Ok(Str(acc), i + 1)
           ELSE IF c \in {"\n", "\t", "\r"} THEN Fail
           ELSE IF c = "\\"
             THEN IF i + 1 > Len(s) THEN Fail
                  ELSE LET d == Char(s, i + 1)
                       IN  CASE d \in {"\"", "\\", "/"} -> ParseChars(s, i + 2, acc \o d)
                             [] d = "n" -> ParseChars(s, i + 2, acc \o "\n")
                             [] d = "t" -> ParseChars(s, i + 2, acc \o "\t")
                             [] d = "r" -> ParseChars(s, i + 2, acc \o "\r")
                             [] OTHER   -> Fail
           ELSE ParseChars(s, i + 1, acc \o c)

RECURSIVE ParseDigits(_, _, _)
ParseDigits(s, i, acc) ==
  IF i <= Len(s) /\ Char(s, i) \in Digits
  THEN ParseDigits(s, i + 1, acc * 10 + DigitVal(Char(s, i)))
  ELSE [n |-> acc, i |-> i]

\* an integer literal: an optional minus, then 0 alone or digits not starting with 0
ParseNumber(s, i) ==
  LET neg == Char(s, i) = "-"
      j   == IF neg THEN i + 1 ELSE i
  IN  IF j > Len(s) \/ Char(s, j) \notin Digits THEN Fail
      ELSE IF Char(s, j) = "0" THEN Ok(Num(0), j + 1)
      ELSE LET d == ParseDigits(s, j, 0)
           IN  Ok(Num(IF neg THEN 0 - d.n ELSE d.n), d.i)

Literal(s, i, word, v) ==
  IF i + Len(word) - 1 <= Len(s) /\ SubSeq(s, i, i + Len(word) - 1) = word
  THEN Ok(v, i + Len(word))
  ELSE Fail

\* defining property k of an object under construction: a repeated name keeps
\* its place and takes the later value
Put(entries, k, v) ==
  IF \E i \in 1..Len(entries) : entries[i].k = k
  THEN [i \in 1..Len(entries) |-> IF entries[i].k = k THEN P(k, v) ELSE entries[i]]
  ELSE Append(entries, P(k, v))

RECURSIVE ParseValue(_, _), ParseElements(_, _, _), ParseMembers(_, _, _)
ParseValue(s, i0) ==
  LET i == SkipWs(s, i0)
  IN  IF i > Len(s) THEN Fail
      ELSE LET c == Char(s, i)
               j == SkipWs(s, i + 1)
           IN  CASE c = "{" -> IF j <= Len(s) /\ Char(s, j) = "}"
                               THEN Ok(Obj(<<>>), j + 1)
                               ELSE ParseMembers(s, j, <<>>)
                 [] c = "[" -> IF j <= Len(s) /\ Char(s, j) = "]"
                               THEN Ok(Arr(<<>>), j + 1)
                               ELSE ParseElements(s, j, <<>>)
                 [] c = "\"" -> ParseChars(s, i + 1, "")
                 [] c = "-" \/ c \in Digits -> ParseNumber(s, i)
                 [] c = "t" -> Literal(s, i, "true", Bool(TRUE))
                 [] c = "f" -> Literal(s, i, "false", Bool(FALSE))
                 [] c = "n" -> Literal(s, i, "null", Null)
                 [] OTHER   -> Fail

\* the elements of an array from position i on; acc holds those already read
ParseElements(s, i, acc) ==
  LET r == ParseValue(s, i)
      j == SkipWs(s, r.i)
  IN  IF ~r.ok \/ j > Len(s) THEN Fail
      ELSE IF Char(s, j) = "," THEN ParseElements(s, j + 1, Append(acc, r.v))
      ELSE IF Char(s, j) = "]" THEN Ok(Arr(Append(acc, r.v)), j + 1)
      ELSE Fail

\* the members of an object from position i0 on; acc holds those already read
ParseMembers(s, i0, acc) ==
  LET i == SkipWs(s, i0)
  IN  IF i > Len(s) \/ Char(s, i) # "\"" THEN Fail
      ELSE LET k == ParseChars(s, i + 1, "")
               c == SkipWs(s, k.i)
           IN  IF ~k.ok \/ c > Len(s) THEN Fail
               ELSE IF Char(s, c) # ":" THEN Fail
               ELSE LET r    == ParseValue(s, c + 1)
                        j    == SkipWs(s, r.i)
                        acc2 == Put(acc, k.v.s, r.v)
                    IN  IF ~r.ok \/ j > Len(s) THEN Fail
                        ELSE IF Char(s, j) = "," THEN ParseMembers(s, j + 1, acc2)
                        ELSE IF Char(s, j) = "}" THEN Ok(Obj(acc2), j + 1)
                        ELSE Fail

\* JSON.parse(text): [ok, v] with the decoded value, or ok = FALSE and the
\* SyntaxError it throws
JSONparse(text) ==
  LET r == ParseValue(text, 1)
  IN  IF r.ok /\ SkipWs(text, r.i) > Len(text)
      THEN [ok |-> TRUE, v |-> r.v]
      ELSE [ok |-> FALSE, v |-> Error("SyntaxError", "Unexpected token in JSON")]

\* deep equality of two values, the order of an object's keys set aside
RECURSIVE SameValue(_, _)
SameValue(a, b) ==
  /\ a.t = b.t /\ a.b = b.b /\ a.n = b.n /\ a.s = b.s
  /\ Len(a.e) = Len(b.e)
  /\ IF a.t = "object"
     THEN /\ {a.e[i].k : i \in 1..Len(a.e)} = {b.e[i].k : i \in 1..Len(b.e)}
          /\ \A i \in 1..Len(a.e) : SameValue(Get(a, a.e[i].k), Get(b, a.e[i].k))
     ELSE \A i \in 1..Len(a.e) : SameValue(a.e[i].v, b.e[i].v)

---------------------------------------------------------------------------
(* Strings: String.prototype.toUpperCase and substring search.             *)

LowerCase == "abcdefghijklmnopqrstuvwxyz"
UpperCase == "ABCDEFGHIJKLMNOPQRSTUVWXYZ"

\* first position >= from at which sub occurs in s, 0 if none
IndexOf(s, sub, from) ==
  LET at == {i \in from..(Len(s) - Len(sub) + 1) : SubSeq(s, i, i + Len(sub) - 1) = sub}
  IN  IF at = {} THEN 0 ELSE CHOOSE i \in at : \A j \in at : i <= j

Contains(s, sub) == IndexOf(s, sub, 1) # 0

RECURSIVE toUpperCase(_)
toUpperCase(s) ==
  IF s = "" THEN ""
  ELSE LET c == Head(s)
           i == IndexOf(LowerCase, c, 1)
       IN  (IF i = 0 THEN c ELSE Char(UpperCase, i)) \o toUpperCase(Tail(s))

---------------------------------------------------------------------------
(* url.parse of Node, for URLs of the form scheme://host/path?query: host  *)
(* is null and path the whole text when the text has no "://".             *)

url_parse(u) ==
  LET p == IndexOf(u, "://", 1)
      h == p + 3
      q == IndexOf(u, "/", h)
  IN  IF p = 0 THEN [host |-> Null, path |-> Str(u)]
      ELSE IF q = 0 THEN [host |-> Str(SubSeq(u, h, Len(u))), path |-> Str("/")]
      ELSE [host |-> Str(SubSeq(u, h, q - 1)), path |-> Str(SubSeq(u, q, Len(u)))]

---------------------------------------------------------------------------
(* The URL builder (./urls, required at line 20).  A Urls instance keeps   *)
(* the base URL it was constructed with; each method appends the resource  *)
(* path and, for a listing, the query options that are present.            *)

Urls(apiUrl) == [apiUrl |-> apiUrl]

QueryFields == <<"nameFilter", "startFrom", "maxItems", "groupNameFilter">>

RECURSIVE QueryPairs(_, _, _)
QueryPairs(queryOpts, i, first) ==
  IF i > Len(QueryFields) THEN ""
  ELSE LET v == Get(queryOpts, QueryFields[i])
       IN  IF v.t = "undefined" THEN QueryPairs(queryOpts, i + 1, first)
           ELSE (IF first THEN "?" ELSE "&") \o QueryFields[i] \o "=" \o ToStr(v)
                \o QueryPairs(queryOpts, i + 1, FALSE)

Query(queryOpts) == QueryPairs(queryOpts, 1, TRUE)

Base(urls) == ToStr(urls.apiUrl)

Urls_zonesBase(urls) == Base(urls) \o "/zones"
Urls_getZones(urls, queryOpts) == Urls_zonesBase(urls) \o Query(queryOpts)
Urls_zone(urls, id) == Urls_zonesBase(urls) \o "/" \o ToStr(id)
Urls_getZoneChanges(urls, id, queryOpts) == Urls_zone(urls, id) \o "/changes" \o Query(queryOpts)
Urls_syncZone(urls, id) == Urls_zone(urls, id) \o "/sync"
Urls_recordSetsBase(urls, zoneId) == Urls_zone(urls, zoneId) \o "/recordsets"
Urls_getRecordSets(urls, zoneId, queryOpts) == Urls_recordSetsBase(urls, zoneId) \o Query(queryOpts)
Urls_recordSet(urls, details) ==
  Urls_recordSetsBase(urls, Get(details, "zoneId")) \o "/" \o ToStr(Get(details, "id"))
Urls_recordSetChange(urls, details) ==
  Urls_recordSetsBase(urls, Get(details, "zoneId")) \o "/" \o ToStr(Get(details, "recordSetId"))
    \o "/changes/" \o ToStr(Get(details, "changeId"))
Urls_recordSetChanges(urls, zoneId, queryOpts) ==
  Urls_zone(urls, zoneId) \o "/recordsetchanges" \o Query(queryOpts)
Urls_batchChanges(urls, queryOpts) ==
  Base(urls) \o "/zonechanges/batchrecordchanges" \o Query(queryOpts)
Urls_batchChange(urls, id) == Base(urls) \o "/zonechanges/batchrecordchanges/" \o ToStr(id)
Urls_groupsBase(urls) == Base(urls) \o "/groups"
Urls_getGroups(urls, queryOpts) == Urls_groupsBase(urls) \o Query(queryOpts)
Urls_group(urls, id) == Urls_groupsBase(urls) \o "/" \o ToStr(id)
Urls_getGroupActivity(urls, id, queryOpts) == Urls_group(urls, id) \o "/activity" \o Query(queryOpts)
Urls_getGroupAdmins(urls, id) == Urls_group(urls, id) \o "/admins"
Urls_getGroupMembers(urls, id, queryOpts) == Urls_group(urls, id) \o "/members" \o Query(queryOpts)

---------------------------------------------------------------------------
(* aws4.sign(request, credentials).  It adds the Host, Content-Length and  *)
(* X-Amz-Date headers to the request it is given, signs the method, path,  *)
(* headers and body the request then has, stores the result as the         *)
(* Authorization header, and returns that same request object.  The HMAC   *)
(* is modelled by its argument list: two signatures are equal exactly when *)
(* the key and everything signed are equal.                                *)

Now == "20190101T000000Z"
DefaultHost == ".us-east-1.amazonaws.com"
Unsigned == [credential |-> Undefined, signedHeaders |-> <<>>,
             signature |-> [key |-> Undefined, method |-> "", path |-> Null,
                            headers |-> <<>>, body |-> ""]]

Hmac(key, method, path, headers, body) ==
  [key |-> key, method |-> method, path |-> path, headers |-> headers, body |-> body]

aws4_sign(request, credentials) ==
  LET headers == request.headers
                 \o << P("Host", IF Truthy(request.host) THEN ToStr(request.host) ELSE DefaultHost) >>
                 \o (IF request.body # "" THEN << P("Content-Length", ToString(Len(request.body))) >> ELSE <<>>)
                 \o << P("X-Amz-Date", Now) >>
  IN  [request EXCEPT
         !.headers = headers,
         !.authorization =
            [credential    |-> credentials.accessKeyId,
             signedHeaders |-> [i \in 1..Len(headers) |-> headers[i].k],
             signature     |-> Hmac(credentials.secretAccessKey, request.method,
                                    request.path, headers, request.body)]]

---------------------------------------------------------------------------
(* class VinylDNS.  A helper takes the instance (self) and a context ctx = *)
(* [addr, trace]: the number of descriptor objects allocated so far and    *)
(* the library calls made so far in this facade call, in order.  It        *)
(* returns [req, trace]: the request it hands on and the extended trace.   *)

constructor(config) ==
  IF config.t \in {"undefined", "null"}
  THEN [constructed |-> FALSE,
        threw |-> Error("TypeError", "Cannot read property 'apiUrl' of " \o config.t),
        config |-> config, urls |-> Urls(Undefined)]
  ELSE [constructed |-> TRUE, threw |-> Undefined,
        config |-> config, urls |-> Urls(Get(config, "apiUrl"))]

\* _requestOptions converting the body to a string without JSON.stringify
_requestOptionsUnencoded(opts, ctx) ==
  LET parsedUrl == url_parse(opts.url)
  IN  [req |-> [addr    |-> ctx.addr + 1,
                host    |-> parsedUrl.host,
                uri     |-> opts.url,
                method  |-> IF Truthy(opts.method) THEN toUpperCase(opts.method.s) ELSE "GET",
                path    |-> parsedUrl.path,
                headers |-> << P("Content-Type", "application/json") >>,
                body    |-> IF Truthy(opts.body) THEN ToStr(opts.body) ELSE "",
                authorization |-> Unsigned],
       trace |-> ctx.trace \o <<"url.parse">>]

\* _requestOptions: the descriptor is a new object (addr) per call
_requestOptions(opts, ctx) ==
  LET parsedUrl == url_parse(opts.url)
  IN  [req |-> [addr    |-> ctx.addr + 1,
                host    |-> parsedUrl.host,
                uri     |-> opts.url,
                method  |-> IF Truthy(opts.method) THEN toUpperCase(opts.method.s) ELSE "GET",
                path    |-> parsedUrl.path,
                headers |-> << P("Content-Type", "application/json") >>,
                body    |-> IF Truthy(opts.body) THEN JSONstringify(opts.body).s ELSE "",
                authorization |-> Unsigned],
       trace |-> ctx.trace \o <<"url.parse">>
                 \o (IF Truthy(opts.body) THEN <<"JSON.stringify">> ELSE <<>>)]

\* _request, up to the call of request(signedReq, callback)
_request(self, built) ==
  LET signedReq == aws4_sign(built.req,
                             [accessKeyId     |-> Get(self.config, "accessKeyId"),
                              secretAccessKey |-> Get(self.config, "secretAccessKey")])
  IN  [req |-> signedReq, trace |-> built.trace \o <<"aws4.sign", "request">>]

_getOrDelete(self, url, method, ctx) ==
  _request(self, _requestOptions([url |-> url, method |-> Str(method), body |-> Undefined], ctx))

\* _createOrUpdate signing the descriptor before the body is attached to it
_createOrUpdateSignFirst(self, resource, url, method, ctx) ==
  LET early == _request(self, _requestOptions([url |-> url, method |-> Str(method),
                                               body |-> Undefined], ctx))
  IN  [req   |-> [early.req EXCEPT !.body = JSONstringify(resource).s],
       trace |-> ctx.trace \o <<"url.parse", "aws4.sign", "JSON.stringify", "request">>]

_createOrUpdate(self, resource, url, method, ctx) ==
  _request(self, _requestOptions([url |-> url, method |-> Str(method), body |-> resource], ctx))

\* _sync leaving the method out
_syncNoMethod(self, url, ctx) ==
  _request(self, _requestOptions([url |-> url, method |-> Undefined, body |-> Undefined], ctx))

_sync(self, url, ctx) ==
  _request(self, _requestOptions([url |-> url, method |-> Str("post"), body |-> Undefined], ctx))

\* a facade method evaluates its URL (this.urls...) before it calls its helper
UrlBuilt(ctx) == [ctx EXCEPT !.trace = @ \o <<"urls">>]

getZone(self, id, ctx) == _getOrDelete(self, Urls_zone(self.urls, id), "get", UrlBuilt(ctx))
deleteZone(self, id, ctx) == _getOrDelete(self, Urls_zone(self.urls, id), "delete", UrlBuilt(ctx))
getBatchChange(self, id, ctx) == _getOrDelete(self, Urls_batchChange(self.urls, id), "get", UrlBuilt(ctx))
getGroup(self, id, ctx) == _getOrDelete(self, Urls_group(self.urls, id), "get", UrlBuilt(ctx))
getGroupAdmins(self, id, ctx) == _getOrDelete(self, Urls_getGroupAdmins(self.urls, id), "get", UrlBuilt(ctx))
deleteGroup(self, id, ctx) == _getOrDelete(self, Urls_group(self.urls, id), "delete", UrlBuilt(ctx))
syncZone(self, id, ctx) == _sync(self, Urls_syncZone(self.urls, id), UrlBuilt(ctx))
getZones(self, queryOpts, ctx) == _getOrDelete(self, Urls_getZones(self.urls, queryOpts), "get", UrlBuilt(ctx))
getBatchChanges(self, queryOpts, ctx) == _getOrDelete(self, Urls_batchChanges(self.urls, queryOpts), "get", UrlBuilt(ctx))
getGroups(self, queryOpts, ctx) == _getOrDelete(self, Urls_getGroups(self.urls, queryOpts), "get", UrlBuilt(ctx))
getZoneChanges(self, id, queryOpts, ctx) ==
  _getOrDelete(self, Urls_getZoneChanges(self.urls, id, queryOpts), "get", UrlBuilt(ctx))
getRecordSets(self, id, queryOpts, ctx) ==
  _getOrDelete(self, Urls_getRecordSets(self.urls, id, queryOpts), "get", UrlBuilt(ctx))
getRecordSetChanges(self, id, queryOpts, ctx) ==
  _getOrDelete(self, Urls_recordSetChanges(self.urls, id, queryOpts), "get", UrlBuilt(ctx))
getGroupActivity(self, id, queryOpts, ctx) ==
  _getOrDelete(self, Urls_getGroupActivity(self.urls, id, queryOpts), "get", UrlBuilt(ctx))
getGroupMembers(self, id, queryOpts, ctx) ==
  _getOrDelete(self, Urls_getGroupMembers(self.urls, id, queryOpts), "get", UrlBuilt(ctx))
getRecordSet(self, details, ctx) == _getOrDelete(self, Urls_recordSet(self.urls, details), "get", UrlBuilt(ctx))
deleteRecordSet(self, details, ctx) == _getOrDelete(self, Urls_recordSet(self.urls, details), "delete", UrlBuilt(ctx))
getRecordSetChange(self, details, ctx) == _getOrDelete(self, Urls_recordSetChange(self.urls, details), "get", UrlBuilt(ctx))
createZone(self, zone, ctx) == _createOrUpdate(self, zone, Urls_zonesBase(self.urls), "post", UrlBuilt(ctx))
updateZone(self, zone, ctx) ==
  _createOrUpdate(self, zone, Urls_zone(self.urls, Get(zone, "id")), "put", UrlBuilt(ctx))
createRecordSet(self, recordSet, ctx) ==
  _createOrUpdate(self, recordSet, Urls_recordSetsBase(self.urls, Get(recordSet, "zoneId")), "post", UrlBuilt(ctx))
updateRecordSet(self, recordSet, ctx) ==
  _createOrUpdate(self, recordSet, Urls_recordSet(self.urls, recordSet), "put", UrlBuilt(ctx))
createBatchChange(self, batchChange, ctx) ==
  _createOrUpdate(self, batchChange, Urls_batchChanges(self.urls, Undefined), "post", UrlBuilt(ctx))
createGroup(self, group, ctx) == _createOrUpdate(self, group, Urls_groupsBase(self.urls), "post", UrlBuilt(ctx))
updateGroup(self, group, ctx) ==
  _createOrUpdate(self, group, Urls_group(self.urls, Get(group, "id")), "put", UrlBuilt(ctx))

ReadOps == {"getZone", "getBatchChange", "getGroup", "getGroupAdmins", "getZones", "getBatchChanges", "getGroups", "getZoneChanges", "getRecordSets", "getRecordSetChanges", "getGroupActivity", "getGroupMembers", "getRecordSet", "getRecordSetChange"}
DeleteOps == {"deleteZone", "deleteGroup", "deleteRecordSet"}
CreateOps == {"createZone", "createRecordSet", "createBatchChange", "createGroup"}
UpdateOps == {"updateZone", "updateRecordSet", "updateGroup"}
WriteOps == CreateOps \cup UpdateOps
Operations == ReadOps \cup DeleteOps \cup {"syncZone"} \cup WriteOps

\* the facade call op(a): a = [id, queryOpts, obj] holds the arguments op takes
Invoke(self, op, a, ctx) ==
  CASE op = "getZone" -> getZone(self, a.id, ctx)
    [] op = "deleteZone" -> deleteZone(self, a.id, ctx)
    [] op = "getBatchChange" -> getBatchChange(self, a.id, ctx)
    [] op = "getGroup" -> getGroup(self, a.id, ctx)
    [] op = "getGroupAdmins" -> getGroupAdmins(self, a.id, ctx)
    [] op = "deleteGroup" -> deleteGroup(self, a.id, ctx)
    [] op = "syncZone" -> syncZone(self, a.id, ctx)
    [] op = "getZones" -> getZones(self, a.queryOpts, ctx)
    [] op = "getBatchChanges" -> getBatchChanges(self, a.queryOpts, ctx)
    [] op = "getGroups" -> getGroups(self, a.queryOpts, ctx)
    [] op = "getZoneChanges" -> getZoneChanges(self, a.id, a.queryOpts, ctx)
    [] op = "getRecordSets" -> getRecordSets(self, a.id, a.queryOpts, ctx)
    [] op = "getRecordSetChanges" -> getRecordSetChanges(self, a.id, a.queryOpts, ctx)
    [] op = "getGroupActivity" -> getGroupActivity(self, a.id, a.queryOpts, ctx)
    [] op = "getGroupMembers" -> getGroupMembers(self, a.id, a.queryOpts, ctx)
    [] op = "getRecordSet" -> getRecordSet(self, a.obj, ctx)
    [] op = "deleteRecordSet" -> deleteRecordSet(self, a.obj, ctx)
    [] op = "getRecordSetChange" -> getRecordSetChange(self, a.obj, ctx)
    [] op = "createZone" -> createZone(self, a.obj, ctx)
    [] op = "updateZone" -> updateZone(self, a.obj, ctx)
    [] op = "createRecordSet" -> createRecordSet(self, a.obj, ctx)
    [] op = "updateRecordSet" -> updateRecordSet(self, a.obj, ctx)
    [] op = "createBatchChange" -> createBatchChange(self, a.obj, ctx)
    [] op = "createGroup" -> createGroup(self, a.obj, ctx)
    [] op = "updateGroup" -> updateGroup(self, a.obj, ctx)

---------------------------------------------------------------------------
(* The promise _request returns and the completion callback it registers.  *)

NewPromise == [state |-> "pending", value |-> Undefined]
\* the executor's fulfill and reject: a settled promise ignores them
fulfill(promise, value) ==
  IF promise.state = "pending" THEN [state |-> "fulfilled", value |-> value] ELSE promise
reject(promise, reason) ==
  IF promise.state = "pending" THEN [state |-> "rejected", value |-> reason] ELSE promise

NoResponse == [present |-> FALSE, statusCode |-> 0, body |-> ""]
Response(statusCode, body) == [present |-> TRUE, statusCode |-> statusCode, body |-> body]

\* the callback comparing the status with > 400
callbackAbove400(promise, err, resp) ==
  IF Truthy(err)
  THEN [promise |-> reject(promise, err), threw |-> FALSE, error |-> Undefined]
  ELSE IF ~resp.present
  THEN [promise |-> promise, threw |-> TRUE,
        error |-> Error("TypeError", "Cannot read property 'statusCode' of undefined")]
  ELSE IF resp.statusCode > 400
  THEN [promise |-> reject(promise, Error("Error", ToString(resp.statusCode) \o ": " \o resp.body)),
        threw |-> FALSE, error |-> Undefined]
  ELSE LET parsed == JSONparse(resp.body)
       IN  IF parsed.ok
           THEN [promise |-> fulfill(promise, parsed.v), threw |-> FALSE, error |-> Undefined]
           ELSE [promise |-> promise, threw |-> TRUE, error |-> parsed.v]

\* the callback wrapping the transport error in a new Error
callbackWrapped(promise, err, resp) ==
  IF Truthy(err)
  THEN [promise |-> reject(promise, Error("Error", "request failed: " \o err.s)), threw |-> FALSE, error |-> Undefined]
  ELSE IF ~resp.present
  THEN [promise |-> promise, threw |-> TRUE,
        error |-> Error("TypeError", "Cannot read property 'statusCode' of undefined")]
  ELSE IF resp.statusCode >= 400
  THEN [promise |-> reject(promise, Error("Error", ToString(resp.statusCode) \o ": " \o resp.body)),
        threw |-> FALSE, error |-> Undefined]
  ELSE LET parsed == JSONparse(resp.body)
       IN  IF parsed.ok
           THEN [promise |-> fulfill(promise, parsed.v), threw |-> FALSE, error |-> Undefined]
           ELSE [promise |-> promise, threw |-> TRUE, error |-> parsed.v]

\* the callback resolving with the body text as received
callbackUnparsed(promise, err, resp) ==
  IF Truthy(err)
  THEN [promise |-> reject(promise, err), threw |-> FALSE, error |-> Undefined]
  ELSE IF ~resp.present
  THEN [promise |-> promise, threw |-> TRUE,
        error |-> Error("TypeError", "Cannot read property 'statusCode' of undefined")]
  ELSE IF resp.statusCode >= 400
  THEN [promise |-> reject(promise, Error("Error", ToString(resp.statusCode) \o ": " \o resp.body)),
        threw |-> FALSE, error |-> Undefined]
  ELSE LET parsed == JSONparse(resp.body)
       IN  IF parsed.ok
           THEN [promise |-> fulfill(promise, Str(resp.body)), threw |-> FALSE, error |-> Undefined]
           ELSE [promise |-> promise, threw |-> TRUE, error |-> parsed.v]

\* the callback (err, resp) => {...}: the promise afterwards, and the
\* exception the callback threw, if any
callback(promise, err, resp) ==
  IF Truthy(err)
  THEN [promise |-> reject(promise, err), threw |-> FALSE, error |-> Undefined]
  ELSE IF ~resp.present
  THEN [promise |-> promise, threw |-> TRUE,
        error |-> Error("TypeError", "Cannot read property 'statusCode' of undefined")]
  ELSE IF resp.statusCode >= 400
  THEN [promise |-> reject(promise, Error("Error", ToString(resp.statusCode) \o ": " \o resp.body)),
        threw |-> FALSE, error |-> Undefined]
  ELSE LET parsed == JSONparse(resp.body)
       IN  IF parsed.ok
           THEN [promise |-> fulfill(promise, parsed.v), threw |-> FALSE, error |-> Undefined]
           ELSE [promise |-> promise, threw |-> TRUE, error |-> parsed.v]

\* request called a second time with the same request and callback
requestTwice(requests, signedReq, id) ==
  Append(Append(requests, [req |-> signedReq, cb |-> id, outcome |-> <<>>]),
         [req |-> signedReq, cb |-> id, outcome |-> <<>>])

\* request(signedReq, callback): the library takes the request and holds the
\* callback of call id until it completes
request(requests, signedReq, id) ==
  Append(requests, [req |-> signedReq, cb |-> id, outcome |-> <<>>])

\* the callback settling the promise of the latest call instead of its own
OwnerLatest(requests, k) == requests[Len(requests)].cb

\* the promise a request's callback settles: the one whose executor made it
Owner(requests, k) == requests[k].cb

---------------------------------------------------------------------------
(* Inputs: the configurations a client is constructed with, the arguments  *)
(* of the facade calls, and what the request library can deliver.          *)

RequiredFields == {"apiUrl", "accessKeyId", "secretAccessKey"}
ValidConfig ==
  Obj(<< P("apiUrl", Str("https://api.example.com")),
         P("accessKeyId", Str("AKID")),
         P("secretAccessKey", Str("SECRET")) >>)
Without(obj, k) == Obj(SelectSeq(obj.e, LAMBDA p : p.k # k))
Configs ==
  {ValidConfig, Obj(<<>>), Undefined} \cup {Without(ValidConfig, f) : f \in RequiredFields}

ResGroup ==
  Obj(<< P("name", Str("team-a")), P("email", Str("a@x.com")),
         P("members", Arr(<<>>)), P("admins", Arr(<<>>)) >>)
ResRecordSet ==
  Obj(<< P("zoneId", Str("abc123")), P("id", Str("rs1")),
         P("name", Str("a \"b\" \\ c")), P("ttl", Num(300)), P("shared", Bool(FALSE)),
         P("ownerGroupId", Null),
         P("records", Arr(<< Obj(<< P("address", Str("1.2.3.4")) >>) >>)) >>)
\* a zone whose caller left an optional property undefined
ResSparseZone ==
  Obj(<< P("id", Str("abc123")), P("name", Str("example.")),
         P("adminGroupId", Undefined) >>)
Resources == {ResGroup, ResRecordSet, ResSparseZone}

Details ==
  Obj(<< P("zoneId", Str("abc123")), P("id", Str("rs1")),
         P("recordSetId", Str("rs1")), P("changeId", Str("c1")) >>)
CorpQuery == Obj(<< P("nameFilter", Str("corp")), P("maxItems", Num(50)) >>)

ArgsOf(id, queryOpts, obj) == [id |-> id, queryOpts |-> queryOpts, obj |-> obj]
Args(op) ==
  CASE op \in WriteOps -> {ArgsOf(Undefined, Undefined, r) : r \in Resources}
    [] op \in {"getRecordSet", "deleteRecordSet", "getRecordSetChange"} ->
         {ArgsOf(Undefined, Undefined, Details)}
    [] op = "getZones" -> {ArgsOf(Undefined, q, Undefined) : q \in {Undefined, CorpQuery}}
    [] op \in {"getBatchChanges", "getGroups"} -> {ArgsOf(Undefined, Undefined, Undefined)}
    [] OTHER -> {ArgsOf(Str("abc123"), Undefined, Undefined)}

ZoneJson == "{\"id\":\"abc123\",\"name\":\"example.\"}"
NotFoundJson == "{\"message\":\"not found\"}"
GatewayHtml == "<html>Bad Gateway</html>"
Statuses == {200, 400, 404}
Bodies == {ZoneJson, NotFoundJson, GatewayHtml}

TransportError == Error("Error", "connect ECONNREFUSED")
InvalidUri == Error("Error", "Invalid URI")
Failed(err) == [err |-> err, resp |-> NoResponse]
Answered(statusCode, body) == [err |-> Null, resp |-> Response(statusCode, body)]
Outcomes == {Failed(TransportError)} \cup {Answered(c, b) : c \in Statuses, b \in Bodies}

\* the library answers a request only when its URI names a host
Deliverable(req, o) == IF Truthy(req.host) THEN o \in Outcomes ELSE o = Failed(InvalidUri)

\* for the runs with several calls in flight: one operation per helper and
\* method
ShapeOps == {"getZone", "deleteZone", "syncZone", "createGroup", "updateGroup"}
ShapeArgs(op) == IF op \in WriteOps THEN {ArgsOf(Undefined, Undefined, ResGroup)} ELSE Args(op)

MaxCalls == 1
MaxConcurrent == 2

---------------------------------------------------------------------------
(* Actions.                                                                *)

NoClient == [constructed |-> FALSE, threw |-> Undefined, config |-> Undefined,
             urls |-> Urls(Undefined)]

\* new VinylDNS(config)
New(config) ==
  /\ client = NoClient
  /\ client' = constructor(config)
  /\ UNCHANGED <<calls, sent, uncaught, allocated>>

\* one facade call client.op(a), from its entry to the return of the promise
Call(op, a, limit) ==
  /\ client.constructed
  /\ Len(calls) < limit
  /\ LET out == Invoke(client, op, a, [addr |-> allocated, trace |-> <<>>])
     IN  /\ calls' = Append(calls, [op |-> op, args |-> a, trace |-> out.trace,
                                    promise |-> NewPromise])
         /\ sent' = request(sent, out.req, Len(calls) + 1)
         /\ allocated' = allocated + 1
  /\ UNCHANGED <<client, uncaught>>

\* the request library completes request k with outcome o and runs its
\* callback.  An exception the callback throws is recorded in uncaught; whether
\* the host process survives it is not modelled (stopping there only removes
\* behaviours).
Complete(k, o) ==
  /\ k \in 1..Len(sent)
  /\ sent[k].outcome = <<>>
  /\ Deliverable(sent[k].req, o)
  /\ LET i == Owner(sent, k)
         r == callback(calls[i].promise, o.err, o.resp)
     IN  /\ calls' = [calls EXCEPT ![i].promise = r.promise]
         /\ uncaught' = IF r.threw THEN Append(uncaught, [call |-> i, error |-> r.error])
                        ELSE uncaught
  /\ sent' = [sent EXCEPT ![k].outcome = <<o>>]
  /\ UNCHANGED <<client, allocated>>

Start(c) ==
  /\ client = c
  /\ calls = <<>>
  /\ sent = <<>>
  /\ uncaught = <<>>
  /\ allocated = 0

\* a client constructed with a complete configuration; every operation
Init == Start(constructor(ValidConfig))
Next ==
  \/ \E op \in Operations : \E a \in Args(op) : Call(op, a, MaxCalls)
  \/ \E k \in 1..Len(sent) : \E o \in Outcomes : Complete(k, o)
Spec == Init /\ [][Next]_vars

\* the same client with several calls in flight
NextConcurrent ==
  \/ \E op \in ShapeOps : \E a \in ShapeArgs(op) : Call(op, a, MaxConcurrent)
  \/ \E k \in 1..Len(sent) : \E o \in Outcomes : Complete(k, o)
SpecConcurrent == Init /\ [][NextConcurrent]_vars

\* construction included, with any configuration
InitConfig == Start(NoClient)
NextConfig ==
  \/ \E config \in Configs : New(config)
  \/ \E op \in Operations : \E a \in Args(op) : Call(op, a, MaxCalls)
  \/ \E k \in 1..Len(sent) : \E o \in Outcomes \cup {Failed(InvalidUri)} : Complete(k, o)
SpecConfig == InitConfig /\ [][NextConfig]_vars

---------------------------------------------------------------------------
(* Properties.                                                             *)

Requests == 1..Len(sent)
Done(k) == sent[k].outcome # <<>>
Delivered(k) == sent[k].outcome[1]
CallOf(k) == calls[sent[k].cb]
PromiseOf(k) == CallOf(k).promise
Threw(i) == \E u \in 1..Len(uncaught) : uncaught[u].call = i
AnsweredOk(k) ==
  Done(k) /\ ~Truthy(Delivered(k).err) /\ Delivered(k).resp.present
          /\ Delivered(k).resp.statusCode < 400
AnsweredError(k) ==
  Done(k) /\ ~Truthy(Delivered(k).err) /\ Delivered(k).resp.present
          /\ Delivered(k).resp.statusCode >= 400

\* C1, first part: every call has handed exactly one request to the request
\* library, whatever was delivered for it, and a request completes at most once.
C1_OneRequestPerCall ==
  /\ Len(sent) = Len(calls)
  /\ \A i \in 1..Len(calls) : Cardinality({k \in Requests : sent[k].cb = i}) = 1
  /\ \A k \in Requests : Len(sent[k].outcome) <= 1

\* C1, second part: a promise that is settled keeps its state and its value.
C1_SettledOnce ==
  \A i \in 1..Len(calls) :
    calls[i].promise.state # "pending" => calls'[i].promise = calls[i].promise

\* C1: one call dispatches exactly one request, never a second one, and its
\* result is settled at most once.
C1_SingleRequestSingleResult == [](C1_OneRequestPerCall) /\ [][C1_SettledOnce]_vars

C1_Witness ==
  \E k \in Requests :
    /\ Done(k) /\ Truthy(Delivered(k).err)
    /\ PromiseOf(k).state = "rejected"
    /\ Cardinality({j \in Requests : sent[j].cb = sent[k].cb}) = 1

\* C2: a response with status < 400 whose body is not valid JSON rejects the
\* call's promise with the parse failure.
C2_ParseFailureRejects ==
  \A k \in Requests :
    (AnsweredOk(k) /\ ~JSONparse(Delivered(k).resp.body).ok)
      => /\ PromiseOf(k).state = "rejected"
         /\ PromiseOf(k).value.t = "SyntaxError"

\* C3: a client whose configuration lacks apiUrl, accessKeyId or
\* secretAccessKey is not constructed, and no request is ever dispatched for it.
LacksRequired(config) == \E f \in RequiredFields : Get(config, f).t = "undefined"
C3_IncompleteConfigFailsFast ==
  (client # NoClient /\ LacksRequired(client.config))
    => (~client.constructed /\ client.threw.t # "undefined" /\ sent = <<>>)

\* C4: a response with status >= 400 rejects the promise with an Error whose
\* message contains the status code and the raw body, JSON or not.
C4_RemoteRejection ==
  \A k \in Requests :
    AnsweredError(k)
      => /\ PromiseOf(k).state = "rejected"
         /\ PromiseOf(k).value.t = "Error"
         /\ Contains(PromiseOf(k).value.s, ToString(Delivered(k).resp.statusCode))
         /\ Contains(PromiseOf(k).value.s, Delivered(k).resp.body)
         /\ ~Threw(sent[k].cb)

C4_Witness ==
  \E k \in Requests :
    /\ Done(k) /\ Delivered(k) = Answered(400, GatewayHtml)
    /\ ~JSONparse(Delivered(k).resp.body).ok
    /\ PromiseOf(k).state = "rejected"
    /\ Contains(PromiseOf(k).value.s, "400")
    /\ Contains(PromiseOf(k).value.s, "Bad Gateway")

\* C5: a transport error rejects the promise with that very error value, and
\* the response is not looked at.
C5_TransportErrorVerbatim ==
  \A k \in Requests :
    (Done(k) /\ Truthy(Delivered(k).err))
      => /\ PromiseOf(k).state = "rejected"
         /\ PromiseOf(k).value = Delivered(k).err
         /\ ~Threw(sent[k].cb)

C5_Witness ==
  \E k \in Requests :
    /\ Done(k) /\ Delivered(k).err = TransportError /\ ~Delivered(k).resp.present
    /\ PromiseOf(k) = [state |-> "rejected", value |-> TransportError]

\* C6: a response with status < 400 and a valid JSON body resolves the promise
\* with the decoded body, nothing added or removed.
C6_ResolvesWithDecodedBody ==
  \A k \in Requests :
    (AnsweredOk(k) /\ JSONparse(Delivered(k).resp.body).ok)
      => /\ PromiseOf(k).state = "fulfilled"
         /\ PromiseOf(k).value = JSONparse(Delivered(k).resp.body).v
         /\ ~Threw(sent[k].cb)

C6_Witness ==
  \E k \in Requests :
    /\ CallOf(k).op = "getZone" /\ CallOf(k).args.id = Str("abc123")
    /\ sent[k].req.uri = "https://api.example.com/zones/abc123"
    /\ Done(k) /\ Delivered(k) = Answered(200, ZoneJson)
    /\ PromiseOf(k) = [state |-> "fulfilled",
                       value |-> Obj(<< P("id", Str("abc123")), P("name", Str("example.")) >>)]

\* C7: in every call the URL is built and the body encoded before the one
\* signing, the dispatch comes last, and the signature covers the method, path,
\* headers and body that the request library receives.
Positions(trace, step) == {i \in 1..Len(trace) : trace[i] = step}
C7_SignedAfterBodyBeforeDispatch ==
  \A k \in Requests :
    LET trace == CallOf(k).trace
        req   == sent[k].req
    IN  /\ Cardinality(Positions(trace, "aws4.sign")) = 1
        /\ Cardinality(Positions(trace, "request")) = 1
        /\ trace[1] = "urls"
        /\ trace[Len(trace)] = "request"
        /\ trace[Len(trace) - 1] = "aws4.sign"
        /\ (req.body # "") => Positions(trace, "JSON.stringify") # {}
        /\ req.authorization.signature.method = req.method
        /\ req.authorization.signature.path = req.path
        /\ req.authorization.signature.headers = req.headers
        /\ req.authorization.signature.body = req.body
        /\ req.authorization.signature.key = Get(client.config, "secretAccessKey")

C7_Witness ==
  \E k \in Requests :
    /\ CallOf(k).op = "createGroup"
    /\ CallOf(k).trace = <<"urls", "url.parse", "JSON.stringify", "aws4.sign", "request">>
    /\ sent[k].req.body # ""
    /\ sent[k].req.authorization.signature.body = sent[k].req.body

\* C8, as stated: the body of every write request decodes to the resource the
\* caller passed, whatever the resource.
C8_RoundTrip ==
  \A k \in Requests :
    CallOf(k).op \in WriteOps
      => /\ JSONparse(sent[k].req.body).ok
         /\ SameValue(JSONparse(sent[k].req.body).v, CallOf(k).args.obj)

\* a value JSON can carry: no undefined anywhere in it
RECURSIVE IsJsonData(_)
IsJsonData(v) ==
  /\ v.t \in {"null", "boolean", "number", "string", "array", "object"}
  /\ \A i \in 1..Len(v.e) : IsJsonData(v.e[i].v)

\* C8, amended: the body of a write request decodes to the resource when the
\* resource is an object holding JSON data only; a property whose value is
\* undefined is missing from the decoded body.
C8_RoundTripJsonData ==
  \A k \in Requests :
    CallOf(k).op \in WriteOps
      => /\ JSONparse(sent[k].req.body).ok
         /\ IsJsonData(CallOf(k).args.obj)
              => SameValue(JSONparse(sent[k].req.body).v, CallOf(k).args.obj)
         /\ \A i \in 1..Len(CallOf(k).args.obj.e) :
              CallOf(k).args.obj.e[i].v.t = "undefined"
                => Get(JSONparse(sent[k].req.body).v, CallOf(k).args.obj.e[i].k).t = "undefined"

C8_Witness ==
  \E k \in Requests :
    /\ CallOf(k).op = "updateRecordSet" /\ CallOf(k).args.obj = ResRecordSet
    /\ IsJsonData(ResRecordSet)
    /\ JSONparse(sent[k].req.body).v = ResRecordSet

\* C9: get* send GET and delete* send DELETE with an empty body, syncZone
\* sends POST with an empty body, create* send POST and update* send PUT with
\* the JSON text of the resource as body.
StartsWith(s, prefix) == Len(s) >= Len(prefix) /\ SubSeq(s, 1, Len(prefix)) = prefix
C9_MethodAndBodyByShape ==
  \A k \in Requests :
    LET op  == CallOf(k).op
        req == sent[k].req
    IN  /\ req.method \in {"GET", "POST", "PUT", "DELETE"}
        /\ StartsWith(op, "get") => (req.method = "GET" /\ req.body = "")
        /\ StartsWith(op, "delete") => (req.method = "DELETE" /\ req.body = "")
        /\ StartsWith(op, "sync") => (req.method = "POST" /\ req.body = "")
        /\ StartsWith(op, "create")
             => (req.method = "POST" /\ req.body = Serialize(CallOf(k).args.obj))
        /\ StartsWith(op, "update")
             => (req.method = "PUT" /\ req.body = Serialize(CallOf(k).args.obj))

C9_Witness ==
  \E k \in Requests :
    /\ CallOf(k).op = "createGroup"
    /\ sent[k].req.uri = "https://api.example.com/groups"
    /\ sent[k].req.method = "POST"
    /\ sent[k].req.body
         = "{\"name\":\"team-a\",\"email\":\"a@x.com\",\"members\":[],\"admins\":[]}"

\* a step leaves the client as it is, and changes the promise of a call only
\* by completing a request that call issued
C10_OnlyOwnPromise ==
  /\ client' = client
  /\ \A i \in 1..Len(calls) :
       calls'[i].promise # calls[i].promise
         => \E k \in Requests : sent[k].cb = i /\ ~Done(k) /\ sent'[k].outcome # <<>>
\* a promise is pending until its request completes, equal outcomes give equal
\* results, and no two requests share a descriptor object
C10_OutcomeAlone ==
  /\ \A k \in Requests : ~Done(k) => PromiseOf(k).state = "pending"
  /\ \A j, k \in Requests :
       (Done(j) /\ Done(k) /\ Delivered(j) = Delivered(k)) => PromiseOf(j) = PromiseOf(k)
  /\ \A j, k \in Requests : j # k => sent[j].req.addr # sent[k].req.addr

\* C10: with several calls in flight and completions in any order, a completion
\* settles only the promise of the call that issued the completed request, the
\* result depends on that completion alone, every call has a descriptor object
\* of its own, and the client's configuration never changes.
C10_Isolation == [](C10_OutcomeAlone) /\ [][C10_OnlyOwnPromise]_vars

C10_Witness ==
  /\ Len(sent) = 2
  /\ ~Done(1) /\ Done(2)
  /\ calls[1].promise.state = "pending"
  /\ calls[2].promise.state = "fulfilled"
  /\ sent[1].cb = 1 /\ sent[2].cb = 2

====
